---- MODULE Spec2Model ----
(***************************************************************************)
(* Chunked ERA5 temperature extraction of the Climate_API repository.      *)
(*                                                                         *)
(* Three extraction routines are modelled, selected by `impl`:             *)
(*   "cli"    extract_temperature_timeseries_chunked of                    *)
(*            extract_climate_data.py                                      *)
(*   "soweto" extract_temperature_timeseries_chunked of                    *)
(*            Scripts/case_study_soweto_working.py                         *)
(*   "utils"  ClimateDataExtractor.get_era5_temperature followed by        *)
(*            extract_temperature_timeseries of src/climate_utils.py       *)
(*                                                                         *)
(* Calendar dates are day numbers.  A source timestamp is a tick; a day    *)
(* has TicksPerDay ticks, day d being the ticks d*TicksPerDay ..           *)
(* (d+1)*TicksPerDay - 1 in UTC.  The remote source is the environment: a  *)
(* query either raises or returns any rows whose timestamps lie in the     *)
(* queried range (filterDate: start inclusive, end exclusive).             *)
(***************************************************************************)
EXTENDS Integers, Sequences, FiniteSets, TLC

\* ------------------------------------------------------------------ bounds
\* dates are the days 0..MaxDay
MaxDay == 3
\* chunk_days ranges over -1..MaxChunkDays
MaxChunkDays == 2
\* the source returns at most MaxRows rows in the course of one call
MaxRows == 2
\* resolution of the source timestamps
TicksPerDay == 2

\* ------------------------------------------------------------- value sets
\* None / NaN: a band value the source does not have
NoValue == 0 - 1
\* band values (temperature_2m_celsius, temperature_2m_max_celsius) of a row
Readings == {[mean |-> 1, max |-> 3], [mean |-> 2, max |-> 3],
             [mean |-> NoValue, max |-> 3],
             [mean |-> NoValue, max |-> NoValue]}
Impls == {"cli", "soweto", "utils"}
Chunked == {"cli", "soweto"}
Days == 0..MaxDay
LowDay == 0 - MaxDay
ChunkDayInputs == (0 - 1)..MaxChunkDays
TzOffsets == (0 - 1)..1
EmptyRange == <<0, 0>>

\* impl, tz, start_date, end_date, chunk_days: the call and its machine
\* pc, current_date, all_data, ret: the state of the routine
\* queried, requeried, failed, last_range, last_ok, received: history of the
\* queries the routine issued (query_parity: their number modulo 2) and of
\* the rows the source returned
\* monthly_averages: the DataFrame calculate_monthly_averages returns
\* run, first: the number of the call in progress, and what the first call
\* returned and was answered once a second call has begun
\* response: the HTTP response of the endpoint that handled the request
\* extractor: the ClimateDataExtractor object and the last call of a method
\* batch: the locals of extract_batch_csv
\* cli: the position and the effects of main() of extract_climate_data.py
\* compat: the two DataFrames of the backward compatibility comparison
\* validation: the arguments and the result of validate_date_range
\* req_variables, vpc, columns, remote_calls: the variables argument of the
\* multi-variable extraction, its position, the columns of its DataFrame and
\* the number of requests it has sent to the source
VARIABLES impl, tz, start_date, end_date, chunk_days,
          pc, current_date, all_data, ret,
          queried, requeried, failed, last_range, last_ok, received,
          query_parity, monthly_averages,
          run, first,
          req_variables, vpc, columns, remote_calls,
          response, extractor, batch, cli, compat, validation

vars == <<impl, tz, start_date, end_date, chunk_days,
          pc, current_date, all_data, ret,
          queried, requeried, failed, last_range, last_ok, received,
          query_parity, monthly_averages,
          run, first,
          req_variables, vpc, columns, remote_calls,
          response, extractor, batch, cli, compat, validation>>

\* the variables of the multi-variable extraction
multi == <<req_variables, vpc, columns, remote_calls>>

\* the variables of the callers: endpoints, command line, tests, utilities
callers == <<response, extractor, batch, cli, compat, validation>>

\* the variables the extraction routines leave alone
others == <<monthly_averages, run, first, multi, callers>>

\* the variables the aggregation leaves alone
calls == <<run, first, multi, callers>>

\* ----------------------------------------------------------- pure helpers
MinUnclamped(a, b) == a

\* min(current_date + timedelta(days=chunk_days), end_dt)
Min(a, b) == IF a < b THEN a ELSE b

\* collection.filterDate(a, b): images with a <= system:time_start < b
FilterDate(a, b) == {t \in (LowDay * TicksPerDay)..(MaxDay * TicksPerDay) :
                        a * TicksPerDay <= t /\ t < b * TicksPerDay}

\* rows getRegion(...).getInfo() may hold for a collection filtered to [a, b)
RowsIn(a, b) == {[time |-> t, mean |-> v.mean, max |-> v.max] :
                    t \in FilterDate(a, b), v \in Readings}

\* the responses of at most n rows to a query for [a, b)
Responses(a, b, n) == UNION {[1..k -> RowsIn(a, b)] : k \in 0..n}

\* datetime.fromtimestamp(date_ms / 1000).date(): local time of the machine
LocalDate(t, off) == (t + off) \div TicksPerDay

\* pd.to_datetime(df['time'], unit='ms').dt.date: UTC
UtcDate(t) == t \div TicksPerDay

\* row[4], row[5]: the bands in the order of the header of getRegion, which
\* is ['temperature_2m_celsius', 'temperature_2m_max_celsius'] in both scripts
Row4(row) == row.mean
Row5(row) == row.max

RowValidAny(row) == Row4(row) # NoValue \/ Row5(row) # NoValue

\* `if row[4] is not None and row[5] is not None`
RowValid(row) == Row4(row) # NoValue /\ Row5(row) # NoValue

CliRecord(row, off) ==
    [date |-> LocalDate(row.time, off),
     tmax_celsius |-> Row4(row),
     tmean_celsius |-> Row5(row)]

SowetoRecord(row, off) ==
    [date |-> LocalDate(row.time, off),
     tmax_celsius |-> Row5(row),
     tmean_celsius |-> Row4(row)]

UtilsRecord(row) ==
    [date |-> UtcDate(row.time),
     tmax_celsius |-> row.max,
     tmean_celsius |-> row.mean]

ProcessChunkFirstOnly(im, rows, off) ==
    LET valid == SelectSeq(rows, RowValid)
        recs == [i \in 1..Len(valid) |->
                    IF im = "cli" THEN CliRecord(valid[i], off)
                    ELSE SowetoRecord(valid[i], off)]
    IN  IF recs = << >> THEN << >> ELSE <<recs[1]>>

\* the rows a chunk appends: the loop over data_rows with its validity test
ProcessChunk(im, rows, off) ==
    LET valid == SelectSeq(rows, RowValid)
    IN  [i \in 1..Len(valid) |->
            IF im = "cli" THEN CliRecord(valid[i], off)
            ELSE SowetoRecord(valid[i], off)]

\* df.dropna() on the columns date, tmax_celsius, tmean_celsius
DropNa(recs) ==
    LET Complete(r) == r.tmax_celsius # NoValue /\ r.tmean_celsius # NoValue
    IN  SelectSeq(recs, Complete)

\* df.drop_duplicates(subset=['date']): keep='first'
DropDuplicates(recs) ==
    LET keep == {i \in 1..Len(recs) :
                    \A j \in 1..(i - 1) : recs[j].date # recs[i].date}
        F[i \in 0..Len(recs)] ==
            IF i = 0 THEN << >>
            ELSE IF i \in keep THEN Append(F[i - 1], recs[i]) ELSE F[i - 1]
    IN  F[Len(recs)]

\* insertion of one record behind every record whose date is not later
InsertByDate(sorted, r) ==
    LET n == Cardinality({i \in 1..Len(sorted) : sorted[i].date <= r.date})
    IN  SubSeq(sorted, 1, n) \o <<r>> \o SubSeq(sorted, n + 1, Len(sorted))

SortValuesSkipped(recs) == recs

\* df.sort_values('date').reset_index(drop=True)
SortValues(recs) ==
    LET F[i \in 0..Len(recs)] ==
            IF i = 0 THEN << >> ELSE InsertByDate(F[i - 1], recs[i])
    IN  F[Len(recs)]

\* current_date after the except branch: `continue` of the command-line
\* script jumps over `current_date = chunk_end`, the case study runs it
AfterFailure(im, cur, chunk_end) == IF im = "cli" THEN cur ELSE chunk_end

\* the DataFrame the routine returns from the accumulated rows
BuildFrame(im, recs) ==
    IF im = "cli" THEN (IF recs # << >> THEN SortValues(recs) ELSE << >>)
    ELSE SortValues(DropDuplicates(recs))

\* what the routine hands back besides the DataFrame: nothing, a failed
\* chunk is printed and the statement `return df` returns the frame alone
ReturnedWarnings == {}

\* `first` while the first call is in progress
NoCall == [ret |-> << >>, received |-> << >>, failed |-> {}, answered |-> {}]

\* no response has been sent
NoResponse == [status |-> 0, detail |-> << >>]

\* no ClimateDataExtractor has been constructed
ExtractorIdle ==
    [pc |-> "idle", initialized |-> FALSE, ee_ok |-> FALSE, calls |-> 0,
     method |-> "none", outcome |-> "none", remote_calls |-> 0,
     health_reported |-> FALSE, gee_initialized |-> FALSE]
\* extract_batch_csv is not running
BatchIdle ==
    [pc |-> "idle", start_given |-> FALSE, end_given |-> FALSE,
     csv_columns |-> "neither", named |-> FALSE, readable |-> FALSE,
     locations |-> << >>, file_read |-> FALSE, idx |-> 0, processed |-> {},
     all_results |-> {}, remote_calls |-> 0, workbook |-> {}]
\* main() of extract_climate_data.py is not running
CliIdle ==
    [pc |-> "idle", ee_ok |-> FALSE, steps |-> << >>, exit_status |-> 0,
     files |-> {}]
\* the backward compatibility comparison is not running
CompatIdle ==
    [pc |-> "idle", bands |-> {}, rows |-> << >>,
     df_old |-> << >>, df_new |-> << >>, old_raised |-> FALSE,
     new_raised |-> FALSE]
\* validate_date_range has not been called
ValidationIdle ==
    [pc |-> "idle", start |-> [ok |-> FALSE, day |-> 0],
     end |-> [ok |-> FALSE, day |-> 0], now |-> 0,
     raised |-> "none", value |-> FALSE]

\* no caller is running
CallersIdle ==
    /\ response = NoResponse
    /\ extractor = ExtractorIdle
    /\ batch = BatchIdle
    /\ cli = CliIdle
    /\ compat = CompatIdle
    /\ validation = ValidationIdle

\* the multi-variable extraction has not been called
MultiIdle ==
    /\ req_variables = {}
    /\ vpc = "idle"
    /\ columns = << >>
    /\ remote_calls = 0

\* ------------------------------------------------------------------- Init
Init ==
    /\ impl \in Impls
    /\ tz \in TzOffsets
    /\ start_date \in Days
    /\ end_date \in Days
    /\ chunk_days \in (IF impl \in Chunked THEN ChunkDayInputs ELSE {1})
    /\ pc = (IF impl \in Chunked THEN "loop" ELSE "call")
    /\ current_date = start_date
    /\ all_data = << >>
    /\ ret = << >>
    /\ queried = {}
    /\ requeried = {}
    /\ failed = {}
    /\ last_range = EmptyRange
    /\ last_ok = TRUE
    /\ received = << >>
    /\ query_parity = 0
    /\ monthly_averages = << >>
    /\ run = 1
    /\ first = NoCall
    /\ MultiIdle
    /\ CallersIdle

\* history of an issued query: its range, and whether it is a repetition
NoteQuery(range, ok) ==
    /\ queried' = queried \cup {range}
    /\ requeried' = IF range \in queried THEN requeried \cup {range}
                    ELSE requeried
    /\ failed' = IF ok THEN failed ELSE failed \cup {range}
    /\ last_range' = range
    /\ last_ok' = ok
    /\ query_parity' = 1 - query_parity

\* history of the rows a query returned
NoteRows(range, rows) ==
    received' = received \o [i \in 1..Len(rows) |->
                                [row |-> rows[i], range |-> range]]

\* the rows the first call was given for `range`
FirstRows(range) ==
    LET Of(e) == e.range = range
        es == SelectSeq(first.received, Of)
    IN  [i \in 1..Len(es) |-> es[i].row]

\* what getInfo() may return for [a, b): any rows of the range in the first
\* call; in the second call the source holds the same data, so the rows it
\* returned for this range in the first call
SourceResponses(a, b, n) ==
    IF run = 1 THEN Responses(a, b, n)
    ELSE IF <<a, b>> \in first.answered THEN {FirstRows(<<a, b>>)} ELSE {}

\* whether getInfo() may raise for `range`: in the second call only where it
\* raised in the first
SourceMayRaise(range) == run = 1 \/ range \in first.failed

AppendReplacing(data, recs) == recs

\* all_data.append(...) for each valid row of the chunk
AppendAll(data, recs) == data \o recs

StaleAllData(prev) == prev

\* `all_data = []` at the head of the routine
NewAllData(prev) == << >>

\* ---------------------------------------------------------------- actions
\* one iteration of the while loop whose getInfo() returns rows
ChunkSucceeds ==
    /\ pc = "loop"
    /\ impl \in Chunked
    /\ current_date < end_date
    /\ LET chunk_end == Min(current_date + chunk_days, end_date)
       IN  /\ chunk_end >= LowDay
           /\ \E rows \in SourceResponses(current_date, chunk_end,
                                           MaxRows - Len(received)) :
                /\ all_data' = AppendAll(all_data,
                                         ProcessChunk(impl, rows, tz))
                /\ NoteRows(<<current_date, chunk_end>>, rows)
           /\ NoteQuery(<<current_date, chunk_end>>, TRUE)
           /\ current_date' = chunk_end
    /\ UNCHANGED <<impl, tz, start_date, end_date, chunk_days, pc, ret>>
    /\ UNCHANGED others

\* one iteration of the while loop whose query raises: the except branch
ChunkFails ==
    /\ pc = "loop"
    /\ impl \in Chunked
    /\ current_date < end_date
    /\ LET chunk_end == Min(current_date + chunk_days, end_date)
       IN  /\ chunk_end >= LowDay
           /\ SourceMayRaise(<<current_date, chunk_end>>)
           /\ NoteQuery(<<current_date, chunk_end>>, FALSE)
           /\ current_date' = AfterFailure(impl, current_date, chunk_end)
    /\ UNCHANGED <<impl, tz, start_date, end_date, chunk_days, pc, all_data,
                   ret, received>>
    /\ UNCHANGED others

\* the loop condition is false: build the DataFrame and return it
Finish ==
    /\ pc = "loop"
    /\ impl \in Chunked
    /\ ~(current_date < end_date)
    /\ ret' = BuildFrame(impl, all_data)
    /\ pc' = "done"
    /\ UNCHANGED <<impl, tz, start_date, end_date, chunk_days, current_date,
                   all_data, queried, requeried, failed, last_range, last_ok,
                   received, query_parity>>
    /\ UNCHANGED others

\* get_era5_temperature + extract_temperature_timeseries, getInfo() returns
ExtractOnce ==
    /\ pc = "call"
    /\ impl = "utils"
    /\ \E rows \in SourceResponses(start_date, end_date,
                                    MaxRows - Len(received)) :
         /\ all_data' = DropNa([i \in 1..Len(rows) |-> UtilsRecord(rows[i])])
         /\ NoteRows(<<start_date, end_date>>, rows)
    /\ ret' = SortValues(all_data')
    /\ NoteQuery(<<start_date, end_date>>, TRUE)
    /\ pc' = "done"
    /\ UNCHANGED <<impl, tz, start_date, end_date, chunk_days, current_date>>
    /\ UNCHANGED others

\* get_era5_temperature + extract_temperature_timeseries, getInfo() raises:
\* nothing catches the exception
ExtractRaises ==
    /\ pc = "call"
    /\ impl = "utils"
    /\ SourceMayRaise(<<start_date, end_date>>)
    /\ NoteQuery(<<start_date, end_date>>, FALSE)
    /\ pc' = "raised"
    /\ UNCHANGED <<impl, tz, start_date, end_date, chunk_days, current_date,
                   all_data, ret, received>>
    /\ UNCHANGED others

Next == ChunkSucceeds \/ ChunkFails \/ Finish \/ ExtractOnce \/ ExtractRaises

Spec == Init /\ [][Next]_vars

\* a running call always takes its next step
FairSpec == Spec /\ WF_vars(Next)

\* ============================================================ a second call
\* the routine is called again with the same arguments on the same machine
\* once the first call has returned; the source holds the same data
CallAgain ==
    /\ pc = "done"
    /\ run = 1
    /\ run' = 2
    /\ first' = [ret |-> ret, received |-> received, failed |-> failed,
                 answered |-> IF impl = "soweto" THEN queried \ failed
                              ELSE queried]
    /\ pc' = (IF impl \in Chunked THEN "loop" ELSE "call")
    /\ current_date' = start_date
    /\ all_data' = NewAllData(all_data)
    /\ ret' = << >>
    /\ queried' = {}
    /\ requeried' = {}
    /\ failed' = {}
    /\ last_range' = EmptyRange
    /\ last_ok' = TRUE
    /\ received' = << >>
    /\ query_parity' = 0
    /\ UNCHANGED <<impl, tz, start_date, end_date, chunk_days,
                   monthly_averages>>
    /\ UNCHANGED <<multi, callers>>

NextTwice == Next \/ CallAgain

TwiceSpec == Init /\ [][NextTwice]_vars

\* ====================================================== monthly aggregation
\* calculate_monthly_averages of extract_climate_data.py ("cli") and of
\* climate_utils.py ("utils"), applied to the daily frame held in `ret`.
\* Statistics other than count are in hundredths: round(2) keeps two decimals.

\* a month has DaysPerMonth days; the daily frames span the months 0..MaxMonth
DaysPerMonth == 2
MaxMonth == 2
\* a daily frame has at most MaxDaily records
MaxDaily == 3

Aggregating == {"cli", "utils"}
AggDays == 0..((MaxMonth + 1) * DaysPerMonth - 1)
TmaxVals == {10, 20, 30}
TmeanVals == {10}

DailyRecords == [date : AggDays, tmax_celsius : TmaxVals, tmean_celsius : TmeanVals]

\* the frames an extraction can return: complete records in date order
DailyFrames ==
    UNION {{f \in [1..n -> DailyRecords] :
              \A i \in 1..(n - 1) : f[i].date <= f[i + 1].date} : n \in 0..MaxDaily}

\* daily_df['date'].dt.to_period('M'), as the number of the month
ToPeriod(d) == d \div DaysPerMonth

GroupKeysFilled(df) ==
    LET keys == {ToPeriod(df[i].date) : i \in 1..Len(df)}
    IN  {m \in 0..MaxMonth : \E a, b \in keys : a <= m /\ m <= b}

\* the group keys of groupby('year_month')
GroupKeys(df) == {ToPeriod(df[i].date) : i \in 1..Len(df)}

\* groupby sorts the group keys
SortedKeys(keys) ==
    LET F[k \in 0..Cardinality(keys)] ==
            IF k = 0 THEN << >>
            ELSE Append(F[k - 1],
                        CHOOSE m \in keys :
                            Cardinality({x \in keys : x < m}) = k - 1)
    IN  F[Cardinality(keys)]

\* the values of one column in one group
GroupValuesUpTo(df, m, col) ==
    LET InGroup(r) == ToPeriod(r.date) <= m
        rows == SelectSeq(df, InGroup)
    IN  [i \in 1..Len(rows) |->
            IF col = "tmax_celsius" THEN rows[i].tmax_celsius
            ELSE rows[i].tmean_celsius]

GroupValues(df, m, col) ==
    LET InGroup(r) == ToPeriod(r.date) = m
        rows == SelectSeq(df, InGroup)
    IN  [i \in 1..Len(rows) |->
            IF col = "tmax_celsius" THEN rows[i].tmax_celsius
            ELSE rows[i].tmean_celsius]

SumOf(vals) ==
    LET F[i \in 0..Len(vals)] == IF i = 0 THEN 0 ELSE F[i - 1] + vals[i]
    IN  F[Len(vals)]

SumOfSquares(vals) ==
    LET F[i \in 0..Len(vals)] ==
            IF i = 0 THEN 0 ELSE F[i - 1] + vals[i] * vals[i]
    IN  F[Len(vals)]

\* a / b rounded to the nearest integer, a tie to the even one (numpy round)
RoundDiv(a, b) ==
    LET q == a \div b
        r == a % b
    IN  IF 2 * r < b THEN q
        ELSE IF 2 * r > b THEN q + 1
        ELSE IF q % 2 = 0 THEN q ELSE q + 1

\* the largest k in lo..hi with (2k - 1)^2 * den <= 40000 * num, or lo
RECURSIVE RoundRoot(_, _, _, _)
RoundRoot(num, den, lo, hi) ==
    IF lo >= hi THEN lo
    ELSE LET mid == (lo + hi + 1) \div 2
         IN  IF (2 * mid - 1) * (2 * mid - 1) * den <= 40000 * num
             THEN RoundRoot(num, den, mid, hi)
             ELSE RoundRoot(num, den, lo, mid - 1)

\* 'mean', rounded to two decimals; NaN for no value
MeanOf(vals) ==
    IF vals = << >> THEN NoValue ELSE RoundDiv(100 * SumOf(vals), Len(vals))

\* 'std': the sample standard deviation (denominator n - 1), NaN for n = 1
StdOf(vals) ==
    LET n == Len(vals)
        num == n * SumOfSquares(vals) - SumOf(vals) * SumOf(vals)
    IN  IF n < 2 THEN NoValue
        ELSE RoundRoot(num, n * (n - 1), 0, 100 * 30)

\* 'min' and 'max'; NaN for no value
MinOf(vals) ==
    IF vals = << >> THEN NoValue
    ELSE 100 * (CHOOSE v \in {vals[i] : i \in 1..Len(vals)} :
                    \A i \in 1..Len(vals) : v <= vals[i])
MaxOf(vals) ==
    IF vals = << >> THEN NoValue
    ELSE 100 * (CHOOSE v \in {vals[i] : i \in 1..Len(vals)} :
                    \A i \in 1..Len(vals) : v >= vals[i])

\* the statistics of one column: ['mean', 'std', 'count'] in the
\* command-line script, ['mean', 'std', 'min', 'max', 'count'] in climate_utils
Agg(im, vals) ==
    IF im = "cli"
    THEN [mean |-> MeanOf(vals), std |-> StdOf(vals), count |-> Len(vals)]
    ELSE [mean |-> MeanOf(vals), std |-> StdOf(vals), min |-> MinOf(vals),
          max |-> MaxOf(vals), count |-> Len(vals)]

calculate_monthly_averages(im, daily_df) ==
    LET keys == SortedKeys(GroupKeys(daily_df))
    IN  [k \in 1..Len(keys) |->
            [year_month |-> keys[k],
             tmax_celsius |-> Agg(im, GroupValues(daily_df, keys[k], "tmax_celsius")),
             tmean_celsius |-> Agg(im, GroupValues(daily_df, keys[k], "tmean_celsius"))]]

InitAgg ==
    /\ impl \in Aggregating
    /\ tz = 0
    /\ start_date = 0
    /\ end_date = MaxDay
    /\ chunk_days = 1
    /\ pc = "done"
    /\ current_date = end_date
    /\ ret \in DailyFrames
    /\ all_data = ret
    /\ queried = {}
    /\ requeried = {}
    /\ failed = {}
    /\ last_range = EmptyRange
    /\ last_ok = TRUE
    /\ received = << >>
    /\ query_parity = 0
    /\ monthly_averages = << >>
    /\ run = 1
    /\ first = NoCall
    /\ MultiIdle
    /\ CallersIdle

\* calculate_monthly_averages(daily_df) on the extracted frame
Aggregate ==
    /\ pc = "done"
    /\ impl \in Aggregating
    /\ monthly_averages' = calculate_monthly_averages(impl, ret)
    /\ pc' = "aggregated"
    /\ UNCHANGED <<impl, tz, start_date, end_date, chunk_days, current_date,
                   all_data, ret, queried, requeried, failed, last_range,
                   last_ok, received, query_parity>>
    /\ UNCHANGED calls

NextAgg == Aggregate

AggSpec == InitAgg /\ [][NextAgg]_vars

\* ================================================ multi-variable extraction
\* POST /extract of webapp/backend/main.py: extract_single_location hands
\* request.variables to ClimateDataExtractor.extract_climate_data and turns
\* its outcome into a response.  The variable table is the one printed by
\* example_variable_descriptions.

KnownVariablesLax ==
    {"temperature", "precipitation", "humidity", "wind", "solar", "pressure",
     "evapotranspiration", "rainfall"}

\* the variable names the extraction offers
KnownVariables ==
    {"temperature", "precipitation", "humidity", "wind", "solar", "pressure",
     "evapotranspiration"}

\* the names a request can hold: `variables` is a List[str] without a check
RequestNames == KnownVariables \cup {"rainfall"}

\* the order of the variable table
VariableOrder ==
    <<"temperature", "precipitation", "humidity", "wind", "solar", "pressure",
      "evapotranspiration">>

OutputColumnsColliding(v) ==
    CASE v = "temperature" -> <<"tmax_celsius", "tmean_celsius">>
      [] v = "precipitation" -> <<"precipitation_mm">>
      [] v = "humidity" -> <<"tmean_celsius">>
      [] v = "wind" -> <<"wind_speed_ms", "wind_u_ms", "wind_v_ms">>
      [] v = "solar" -> <<"solar_radiation_jm2">>
      [] v = "pressure" -> <<"surface_pressure_pa">>
      [] v = "evapotranspiration" -> <<"evapotranspiration_mm">>

\* 'columns' of each entry of the variable table
OutputColumns(v) ==
    CASE v = "temperature" -> <<"tmax_celsius", "tmean_celsius">>
      [] v = "precipitation" -> <<"precipitation_mm">>
      [] v = "humidity" -> <<"dewpoint_celsius">>
      [] v = "wind" -> <<"wind_speed_ms", "wind_u_ms", "wind_v_ms">>
      [] v = "solar" -> <<"solar_radiation_jm2">>
      [] v = "pressure" -> <<"surface_pressure_pa">>
      [] v = "evapotranspiration" -> <<"evapotranspiration_mm">>

\* the columns of the DataFrame for the requested variables: the date, then
\* the columns of each requested variable in the order of the table
FrameColumns(requested) ==
    LET F[k \in 0..Len(VariableOrder)] ==
            IF k = 0 THEN <<"date">>
            ELSE IF VariableOrder[k] \in requested
                 THEN F[k - 1] \o OutputColumns(VariableOrder[k])
                 ELSE F[k - 1]
    IN  F[Len(VariableOrder)]

\* the single-series routines are not running
ExtractionIdle ==
    /\ impl = "utils"
    /\ tz = 0
    /\ start_date = 0
    /\ end_date = MaxDay
    /\ chunk_days = 1
    /\ pc = "idle"
    /\ current_date = 0
    /\ all_data = << >>
    /\ ret = << >>
    /\ queried = {}
    /\ requeried = {}
    /\ failed = {}
    /\ last_range = EmptyRange
    /\ last_ok = TRUE
    /\ received = << >>
    /\ query_parity = 0
    /\ monthly_averages = << >>
    /\ run = 1
    /\ first = NoCall

extraction == <<impl, tz, start_date, end_date, chunk_days, pc, current_date,
                all_data, ret, queried, requeried, failed, last_range,
                last_ok, received, query_parity, monthly_averages, run, first>>

\* the callers other than the endpoint that responds
bystanders == <<extractor, batch, cli, compat, validation>>

\* a request with a non-empty list of variable names has arrived
InitVar ==
    /\ ExtractionIdle
    /\ req_variables \in (SUBSET RequestNames) \ {{}}
    /\ vpc = "request"
    /\ columns = << >>
    /\ remote_calls = 0
    /\ CallersIdle

\* extract_climate_data resolves the names: one of them is not in the table
ResolveFails ==
    /\ vpc = "request"
    /\ ~(req_variables \subseteq KnownVariables)
    /\ vpc' = "UnknownVariableError"
    /\ UNCHANGED <<req_variables, columns, remote_calls>>
    /\ UNCHANGED <<extraction, callers>>

\* extract_climate_data resolves the names: all of them are in the table
ResolveOk ==
    /\ vpc = "request"
    /\ req_variables \subseteq KnownVariables
    /\ columns' = FrameColumns(req_variables)
    /\ vpc' = "resolved"
    /\ UNCHANGED <<req_variables, remote_calls>>
    /\ UNCHANGED <<extraction, callers>>

\* extract_climate_data queries the source and returns rows, or none
QuerySource ==
    /\ vpc = "resolved"
    /\ remote_calls' = remote_calls + 1
    /\ vpc' \in {"returned", "empty"}
    /\ UNCHANGED <<req_variables, columns>>
    /\ UNCHANGED <<extraction, callers>>

\* str(e) of the HTTPException raised for an empty DataFrame
NoDataFound == "No data found for specified period"

\* the exception that leaves the try block of extract_single_location
RaisedInExtract(at) ==
    IF at = "empty"
    THEN [kind |-> "HTTPException", status |-> 404, detail |-> <<NoDataFound>>]
    ELSE [kind |-> "UnknownVariableError", status |-> 0, detail |-> <<at>>]

\* `except Exception as e: raise HTTPException(status_code=500, ...)`: an
\* HTTPException is an Exception and is caught as well
ExceptOfExtract(e) ==
    [status |-> 500, detail |-> <<"Extraction failed">> \o e.detail]

\* the ExtractionResponse of a non-empty DataFrame
RespondSuccess ==
    /\ vpc = "returned"
    /\ vpc' = "http_200"
    /\ response' = [status |-> 200, detail |-> <<"success">>]
    /\ UNCHANGED <<req_variables, columns, remote_calls>>
    /\ UNCHANGED <<extraction, bystanders>>

\* `except Exception`: whatever was raised inside the try block, the
\* HTTPException(404) for an empty DataFrame included, becomes a 500
RespondError ==
    /\ vpc \in {"UnknownVariableError", "empty"}
    /\ vpc' = "http_500"
    /\ response' = ExceptOfExtract(RaisedInExtract(vpc))
    /\ UNCHANGED <<req_variables, columns, remote_calls>>
    /\ UNCHANGED <<extraction, bystanders>>

NextVar ==
    ResolveFails \/ ResolveOk \/ QuerySource \/ RespondSuccess \/ RespondError

VarSpec == InitVar /\ [][NextVar]_vars

\* ============================================== the ClimateDataExtractor
\* climate_utils.py: the constructor with _initialize_ee, the three methods
\* that test self.initialized, and GET /health of main.py.
\* extractor.ee_ok records whether ee.Initialize() returned; calls and
\* remote_calls count the method calls and the getInfo() requests.

\* an extractor object receives at most MaxCalls method calls
MaxCalls == 5

Methods ==
    {"create_study_area", "get_era5_temperature",
     "extract_temperature_timeseries"}

\* the methods that send a request to Earth Engine: getRegion(...).getInfo()
RemoteMethods == {"extract_temperature_timeseries"}

GuardMissing(flag) == FALSE

\* `if not self.initialized: raise RuntimeError(...)`
RaisesRuntimeError(flag) == ~flag

but_extractor == <<impl, tz, start_date, end_date, chunk_days, pc,
                   current_date, all_data, ret, queried, requeried, failed,
                   last_range, last_ok, received, query_parity,
                   monthly_averages, run, first, multi,
                   response, batch, cli, compat, validation>>

\* __init__ has set self.initialized = False and is about to call
\* self._initialize_ee()
InitExt ==
    /\ ExtractionIdle
    /\ MultiIdle
    /\ response = NoResponse
    /\ batch = BatchIdle
    /\ cli = CliIdle
    /\ compat = CompatIdle
    /\ validation = ValidationIdle
    /\ extractor = [ExtractorIdle EXCEPT !.pc = "new"]

\* _initialize_ee: ee.Initialize() returns
InitializeSucceeds ==
    /\ extractor.pc = "new"
    /\ extractor' = [extractor EXCEPT !.pc = "ready", !.ee_ok = TRUE,
                                      !.initialized = TRUE]
    /\ UNCHANGED but_extractor

\* _initialize_ee: ee.Initialize() raises
InitializeFails ==
    /\ extractor.pc = "new"
    /\ extractor' = [extractor EXCEPT !.pc = "ready", !.ee_ok = FALSE,
                                      !.initialized = FALSE]
    /\ UNCHANGED but_extractor

\* a method is called and stopped by the test of self.initialized
MethodRefuses ==
    /\ extractor.pc = "ready"
    /\ extractor.calls < MaxCalls
    /\ RaisesRuntimeError(extractor.initialized)
    /\ \E m \in Methods :
         extractor' = [extractor EXCEPT !.calls = @ + 1, !.method = m,
                                        !.outcome = "RuntimeError"]
    /\ UNCHANGED but_extractor

\* a method is called and runs: the two that build Earth Engine objects
\* return them, extract_temperature_timeseries sends its request, which
\* returns or raises
MethodRuns ==
    /\ extractor.pc = "ready"
    /\ extractor.calls < MaxCalls
    /\ ~RaisesRuntimeError(extractor.initialized)
    /\ \E m \in Methods, o \in {"returned", "raised"} :
         /\ (o = "raised" => m \in RemoteMethods)
         /\ extractor' =
                [extractor EXCEPT !.calls = @ + 1, !.method = m,
                                  !.outcome = o,
                                  !.remote_calls =
                                      IF m \in RemoteMethods THEN @ + 1 ELSE @]
    /\ UNCHANGED but_extractor

\* GET /health: "gee_initialized": extractor.initialized
HealthCheck ==
    /\ extractor.pc = "ready"
    /\ extractor' = [extractor EXCEPT !.health_reported = TRUE,
                                      !.gee_initialized = extractor.initialized]
    /\ UNCHANGED but_extractor

NextExt ==
    InitializeSucceeds \/ InitializeFails \/ MethodRefuses \/ MethodRuns
        \/ HealthCheck

ExtSpec == InitExt /\ [][NextExt]_vars

\* ========================================================= POST /extract/batch
\* extract_batch_csv of main.py.  A row of the CSV is its location_name and
\* what the extraction does for it: the geometry cannot be built, the query
\* raises, the DataFrame is empty, or it has data.

\* the CSV has at most MaxLocations rows
MaxLocations == 2

LocationNames == {"Soweto", "Durban"}
Outcomes == {"fails_geometry", "fails_query", "empty", "data"}
CsvRows == [name : LocationNames, outcome : Outcomes]
CsvFiles == UNION {[1..n -> CsvRows] : n \in 0..MaxLocations}

\* f"Location_{i+1}"
GeneratedName(i) == <<"Location", i>>

\* row['location_name'], generated when the CSV has no such column
NameOfRow(b, i) ==
    IF b.named THEN <<b.locations[i].name, 0>> ELSE GeneratedName(i)

ExceptOfBatchRewrapping(e) ==
    [status |-> 500, detail |-> <<"Batch extraction failed">> \o e.detail]

\* `except HTTPException: raise` in front of `except Exception as e: raise
\* HTTPException(status_code=500, ...)`
ExceptOfBatch(e) ==
    IF e.kind = "HTTPException"
    THEN [status |-> e.status, detail |-> e.detail]
    ELSE [status |-> 500, detail |-> <<"Batch extraction failed">> \o e.detail]

\* all_results[location_name] = df_temp: the entry of the name is replaced
StoreResult(results, name, i) ==
    {r \in results : r.name # name} \cup {[name |-> name, row |-> i]}

but_batch == <<impl, tz, start_date, end_date, chunk_days, pc,
               current_date, all_data, ret, queried, requeried, failed,
               last_range, last_ok, received, query_parity,
               monthly_averages, run, first, multi,
               extractor, cli, compat, validation>>

\* a request has arrived: its dates may be empty, its file may be unreadable
InitBatch ==
    /\ ExtractionIdle
    /\ MultiIdle
    /\ response = NoResponse
    /\ extractor = ExtractorIdle
    /\ cli = CliIdle
    /\ compat = CompatIdle
    /\ validation = ValidationIdle
    /\ \E sg, eg, nm, rd \in BOOLEAN,
          cc \in {"latitude_longitude", "lat_lon", "neither"},
          locs \in CsvFiles :
         batch = [BatchIdle EXCEPT !.pc = "start", !.start_given = sg,
                                   !.end_given = eg, !.csv_columns = cc,
                                   !.named = nm, !.readable = rd,
                                   !.locations = locs]

\* `if not start_date or not end_date: raise HTTPException(status_code=400)`
RejectDates ==
    /\ batch.pc = "start"
    /\ ~(batch.start_given /\ batch.end_given)
    /\ response' = ExceptOfBatch([kind |-> "HTTPException", status |-> 400,
                      detail |-> <<"start_date and end_date are required">>])
    /\ batch' = [batch EXCEPT !.pc = "responded"]
    /\ UNCHANGED but_batch

\* file.read() and pd.read_csv return
ReadCsv ==
    /\ batch.pc = "start"
    /\ batch.start_given /\ batch.end_given
    /\ batch.readable
    /\ batch' = [batch EXCEPT !.pc = "read", !.file_read = TRUE]
    /\ UNCHANGED <<response, but_batch>>

\* pd.read_csv raises on the uploaded bytes
ReadCsvFails ==
    /\ batch.pc = "start"
    /\ batch.start_given /\ batch.end_given
    /\ ~batch.readable
    /\ response' = ExceptOfBatch([kind |-> "ParserError", status |-> 0,
                                  detail |-> <<"Error tokenizing data">>])
    /\ batch' = [batch EXCEPT !.pc = "responded", !.file_read = TRUE]
    /\ UNCHANGED but_batch

\* neither latitude/longitude nor lat/lon: HTTPException(status_code=400)
RejectColumns ==
    /\ batch.pc = "read"
    /\ batch.csv_columns = "neither"
    /\ response' = ExceptOfBatch([kind |-> "HTTPException", status |-> 400,
                      detail |-> <<"CSV must have columns">>])
    /\ batch' = [batch EXCEPT !.pc = "responded"]
    /\ UNCHANGED but_batch

\* the columns are there (lat/lon renamed): the loop over the rows begins
AcceptColumns ==
    /\ batch.pc = "read"
    /\ batch.csv_columns # "neither"
    /\ batch' = [batch EXCEPT !.pc = "loop", !.idx = 1]
    /\ UNCHANGED <<response, but_batch>>

\* one iteration of `for idx, row in df_locations.iterrows()`: its try block
\* stores a non-empty DataFrame; its except branch prints and continues
ProcessLocation ==
    /\ batch.pc = "loop"
    /\ batch.idx <= Len(batch.locations)
    /\ LET i == batch.idx
           o == batch.locations[i].outcome
       IN  batch' = [batch EXCEPT
                        !.idx = i + 1,
                        !.processed = @ \cup {i},
                        !.remote_calls =
                            IF o = "fails_geometry" THEN @ ELSE @ + 1,
                        !.all_results =
                            IF o = "data"
                            THEN StoreResult(@, NameOfRow(batch, i), i)
                            ELSE @]
    /\ UNCHANGED <<response, but_batch>>

\* `if not all_results: raise HTTPException(status_code=404)`
RespondNoData ==
    /\ batch.pc = "loop"
    /\ batch.idx > Len(batch.locations)
    /\ batch.all_results = {}
    /\ response' = ExceptOfBatch([kind |-> "HTTPException", status |-> 404,
                      detail |-> <<"No data extracted for any location">>])
    /\ batch' = [batch EXCEPT !.pc = "responded"]
    /\ UNCHANGED but_batch

\* the workbook with one sheet per entry of all_results is streamed back
RespondWorkbook ==
    /\ batch.pc = "loop"
    /\ batch.idx > Len(batch.locations)
    /\ batch.all_results # {}
    /\ response' = [status |-> 200, detail |-> <<"workbook">>]
    /\ batch' = [batch EXCEPT !.pc = "responded",
                              !.workbook = batch.all_results]
    /\ UNCHANGED but_batch

NextBatch ==
    RejectDates \/ ReadCsv \/ ReadCsvFails \/ RejectColumns \/ AcceptColumns
        \/ ProcessLocation \/ RespondNoData \/ RespondWorkbook

BatchSpec == InitBatch /\ [][NextBatch]_vars

\* ====================================================== validate_date_range
\* climate_utils.validate_date_range.  A date string either matches
\* '%Y-%m-%d' and names a day, or does not; datetime.now() is a time of the
\* day `now`.

\* the days of the date strings and of the clock are 0..MaxValDay
MaxValDay == 4

\* datetime(1979, 1, 1) on the scale of the days 0..MaxValDay
Era5Start == 1

DateStrings ==
    {[ok |-> FALSE, day |-> 0]} \cup {[ok |-> TRUE, day |-> d] : d \in 0..MaxValDay}

\* datetime.strptime(s, '%Y-%m-%d'): ValueError for a string that does not match
Strptime(str) == IF str.ok THEN "none" ELSE "ValueError"

EndBeforeStart(start_dt, end_dt) == end_dt < start_dt

\* `if end_dt <= start_dt`
EndNotAfterStart(start_dt, end_dt) == end_dt <= start_dt

\* `if start_dt > datetime.now()`: start_dt is the midnight of its day
StartInFuture(start_dt, now) == start_dt > now

\* `if start_dt < datetime(1979, 1, 1)`
BeforeEra5(start_dt) == start_dt < Era5Start

\* the body of validate_date_range: what it raises and what it returns
validate_date_range(start, end, now) ==
    LET exc == IF Strptime(start) # "none" THEN Strptime(start)
               ELSE Strptime(end)
    IN  IF exc = "ValueError" THEN [raised |-> "none", value |-> FALSE]
        ELSE IF exc # "none" THEN [raised |-> exc, value |-> FALSE]
        ELSE IF EndNotAfterStart(start.day, end.day)
             THEN [raised |-> "none", value |-> FALSE]
        ELSE IF StartInFuture(start.day, now)
             THEN [raised |-> "none", value |-> FALSE]
        ELSE IF BeforeEra5(start.day)
             THEN [raised |-> "none", value |-> FALSE]
        ELSE [raised |-> "none", value |-> TRUE]

but_validation == <<impl, tz, start_date, end_date, chunk_days, pc,
                    current_date, all_data, ret, queried, requeried, failed,
                    last_range, last_ok, received, query_parity,
                    monthly_averages, run, first, multi,
                    response, extractor, batch, cli, compat>>

InitVal ==
    /\ ExtractionIdle
    /\ MultiIdle
    /\ response = NoResponse
    /\ extractor = ExtractorIdle
    /\ batch = BatchIdle
    /\ cli = CliIdle
    /\ compat = CompatIdle
    /\ \E sd, ed \in DateStrings, nw \in 0..MaxValDay :
         validation = [ValidationIdle EXCEPT !.pc = "called", !.start = sd,
                                             !.end = ed, !.now = nw]

\* validate_date_range(start_date, end_date) runs to its end
Validate ==
    /\ validation.pc = "called"
    /\ LET r == validate_date_range(validation.start, validation.end,
                                     validation.now)
       IN  validation' = [validation EXCEPT !.pc = "returned",
                                            !.raised = r.raised,
                                            !.value = r.value]
    /\ UNCHANGED but_validation

NextVal == Validate

ValSpec == InitVal /\ [][NextVal]_vars

\* ================================================= the command-line run
\* main() of extract_climate_data.py around the chunked routine "cli":
\* cli.steps lists the steps main has completed, cli.files the files written.

InitializeUnchecked(ok) == "load"

\* `if not initialize_earth_engine(): sys.exit(1)`
AfterInitialize(ok) == IF ok THEN "load" ELSE "exit"

\* the files export_data writes for a non-empty daily frame
ExportedFiles(daily_df, monthly_df) ==
    IF daily_df = << >> THEN {}
    ELSE {"daily_csv", "excel"} \cup
         (IF monthly_df # << >> THEN {"monthly_csv"} ELSE {})

but_cli == <<multi, run, first, response, extractor, batch, compat,
             validation>>

\* the arguments are parsed; nothing has been initialized
InitCli ==
    /\ impl = "cli"
    /\ tz \in TzOffsets
    /\ start_date \in Days
    /\ end_date \in Days
    /\ chunk_days \in ChunkDayInputs
    /\ pc = "idle"
    /\ current_date = start_date
    /\ all_data = << >>
    /\ ret = << >>
    /\ queried = {}
    /\ requeried = {}
    /\ failed = {}
    /\ last_range = EmptyRange
    /\ last_ok = TRUE
    /\ received = << >>
    /\ query_parity = 0
    /\ monthly_averages = << >>
    /\ run = 1
    /\ first = NoCall
    /\ MultiIdle
    /\ response = NoResponse
    /\ extractor = ExtractorIdle
    /\ batch = BatchIdle
    /\ compat = CompatIdle
    /\ validation = ValidationIdle
    /\ cli = [CliIdle EXCEPT !.pc = "start"]

\* initialize_earth_engine() returns True or False
InitializeEarthEngine ==
    /\ cli.pc = "start"
    /\ \E ok \in BOOLEAN :
         cli' = [cli EXCEPT !.pc = AfterInitialize(ok), !.ee_ok = ok,
                            !.steps = Append(@, "initialize"),
                            !.exit_status = IF AfterInitialize(ok) = "exit"
                                            THEN 1 ELSE @]
    /\ UNCHANGED <<impl, tz, start_date, end_date, chunk_days, pc,
                   current_date, all_data, ret, queried, requeried, failed,
                   last_range, last_ok, received, query_parity,
                   monthly_averages>>
    /\ UNCHANGED but_cli

\* create_study_area and get_era5_temperature_data return: the chunked
\* routine is entered
LoadCollection ==
    /\ cli.pc = "load"
    /\ cli' = [cli EXCEPT !.pc = "extract", !.steps = Append(@, "load")]
    /\ pc' = "loop"
    /\ UNCHANGED <<impl, tz, start_date, end_date, chunk_days,
                   current_date, all_data, ret, queried, requeried, failed,
                   last_range, last_ok, received, query_parity,
                   monthly_averages>>
    /\ UNCHANGED but_cli

\* get_era5_temperature_data raises at size().getInfo(): `except Exception`
\* of main prints the error and calls sys.exit(1)
LoadCollectionFails ==
    /\ cli.pc = "load"
    /\ cli' = [cli EXCEPT !.pc = "exit", !.exit_status = 1]
    /\ UNCHANGED <<impl, tz, start_date, end_date, chunk_days, pc,
                   current_date, all_data, ret, queried, requeried, failed,
                   last_range, last_ok, received, query_parity,
                   monthly_averages>>
    /\ UNCHANGED but_cli

\* `if daily_temps.empty: sys.exit(1)`
ExitEmpty ==
    /\ cli.pc = "extract"
    /\ pc = "done"
    /\ ret = << >>
    /\ cli' = [cli EXCEPT !.pc = "exit", !.exit_status = 1]
    /\ UNCHANGED <<impl, tz, start_date, end_date, chunk_days, pc,
                   current_date, all_data, ret, queried, requeried, failed,
                   last_range, last_ok, received, query_parity,
                   monthly_averages>>
    /\ UNCHANGED but_cli

\* monthly_temps = calculate_monthly_averages(daily_temps)
AggregateDaily ==
    /\ cli.pc = "extract"
    /\ pc = "done"
    /\ ret # << >>
    /\ monthly_averages' = calculate_monthly_averages(impl, ret)
    /\ cli' = [cli EXCEPT !.pc = "export", !.steps = Append(@, "aggregate")]
    /\ UNCHANGED <<impl, tz, start_date, end_date, chunk_days, pc,
                   current_date, all_data, ret, queried, requeried, failed,
                   last_range, last_ok, received, query_parity>>
    /\ UNCHANGED but_cli

\* export_data(daily_temps, monthly_temps, args.location), then the summary
ExportData ==
    /\ cli.pc = "export"
    /\ cli' = [cli EXCEPT !.pc = "exit", !.steps = Append(@, "export"),
                          !.files = ExportedFiles(ret, monthly_averages)]
    /\ UNCHANGED <<impl, tz, start_date, end_date, chunk_days, pc,
                   current_date, all_data, ret, queried, requeried, failed,
                   last_range, last_ok, received, query_parity,
                   monthly_averages>>
    /\ UNCHANGED but_cli

NextCli ==
    InitializeEarthEngine \/ LoadCollection \/ LoadCollectionFails
        \/ ChunkSucceeds \/ ChunkFails \/ Finish
        \/ ExitEmpty \/ AggregateDaily \/ ExportData

CliSpec == InitCli /\ [][NextCli]_vars

\* ================================================== old and new method
\* test_backward_compatibility.py: get_era5_temperature followed by
\* extract_temperature_timeseries of climate_utils.py (the old method) against
\* extract_climate_data(variables=['temperature']) (the new method) on the
\* same dataset.  The dataset is the environment: compat.bands are the band
\* names its images have, compat.rows the values of one point, per band.

\* the dataset returns at most MaxCompatRows images
MaxCompatRows == 2

\* the bands the old method selects
OldBands == {"temperature_2m_max", "temperature_2m_mean"}

\* the bands the variable table names as the source of temperature
NewBands == {"temperature_2m_max", "temperature_2m"}

\* the band sets a dataset can have: the maximum, and any of the two names
\* for the mean
DatasetBandSets ==
    {{"temperature_2m_max"} \cup m :
        m \in SUBSET {"temperature_2m", "temperature_2m_mean"}}

CompatRows ==
    [time : 0..(2 * TicksPerDay - 1), temperature_2m : {1, 2},
     temperature_2m_mean : {1, 2}, temperature_2m_max : {3}]

CompatData == UNION {[1..n -> CompatRows] : n \in 0..MaxCompatRows}

\* image.select(names) fails on a name no band of the image has; the error
\* surfaces when getInfo() evaluates the collection
SelectRaises(names, bands) == ~(names \subseteq bands)

\* the DataFrame of the old method: select and rename the two bands, then
\* extract_temperature_timeseries
OldFrame(rows) ==
    SortValues(DropNa([i \in 1..Len(rows) |->
        UtilsRecord([time |-> rows[i].time,
                     max |-> rows[i].temperature_2m_max,
                     mean |-> rows[i].temperature_2m_mean])]))

\* the DataFrame of the new method for ['temperature']: the bands of the
\* variable table, deduplicated by date and sorted
NewFrame(rows) ==
    SortValues(DropDuplicates(DropNa([i \in 1..Len(rows) |->
        UtilsRecord([time |-> rows[i].time,
                     max |-> rows[i].temperature_2m_max,
                     mean |-> rows[i].temperature_2m])])))

but_compat == <<impl, tz, start_date, end_date, chunk_days, pc,
                current_date, all_data, ret, queried, requeried, failed,
                last_range, last_ok, received, query_parity,
                monthly_averages, run, first, multi,
                response, extractor, batch, cli, validation>>

InitCompat ==
    /\ ExtractionIdle
    /\ MultiIdle
    /\ response = NoResponse
    /\ extractor = ExtractorIdle
    /\ batch = BatchIdle
    /\ cli = CliIdle
    /\ validation = ValidationIdle
    /\ \E b \in DatasetBandSets, r \in CompatData :
         compat = [CompatIdle EXCEPT !.pc = "old", !.bands = b, !.rows = r]

\* Test 1: the old method returns df_old
OldMethodReturns ==
    /\ compat.pc = "old"
    /\ ~SelectRaises(OldBands, compat.bands)
    /\ compat' = [compat EXCEPT !.pc = "new",
                                !.df_old = OldFrame(compat.rows)]
    /\ UNCHANGED but_compat

\* Test 1: the old method raises; the test prints the failure and returns
OldMethodRaises ==
    /\ compat.pc = "old"
    /\ SelectRaises(OldBands, compat.bands)
    /\ compat' = [compat EXCEPT !.pc = "stopped", !.old_raised = TRUE]
    /\ UNCHANGED but_compat

\* Test 2: the new method returns df_new
NewMethodReturns ==
    /\ compat.pc = "new"
    /\ ~SelectRaises(NewBands, compat.bands)
    /\ compat' = [compat EXCEPT !.pc = "compare",
                                !.df_new = NewFrame(compat.rows)]
    /\ UNCHANGED but_compat

\* Test 2: the new method raises; the test prints the failure and returns
NewMethodRaises ==
    /\ compat.pc = "new"
    /\ SelectRaises(NewBands, compat.bands)
    /\ compat' = [compat EXCEPT !.pc = "stopped", !.new_raised = TRUE]
    /\ UNCHANGED but_compat

\* Test 3: the comparison of the two frames is printed
Compare ==
    /\ compat.pc = "compare"
    /\ compat' = [compat EXCEPT !.pc = "compared"]
    /\ UNCHANGED but_compat

NextCompat ==
    OldMethodReturns \/ OldMethodRaises \/ NewMethodReturns
        \/ NewMethodRaises \/ Compare

CompatSpec == InitCompat /\ [][NextCompat]_vars

\* ================================================================ claims
ValidInputs == start_date <= end_date /\ chunk_days >= 1

\* day d lies in the range a query for `range` covers
DayQueried(d, range) == d * TicksPerDay \in FilterDate(range[1], range[2])

\* the chunks of the plan: one every chunk_days days from start_date on
PlannedRanges ==
    {<<s, Min(s + chunk_days, end_date)>> :
        s \in {d \in start_date..(end_date - 1) :
                  (d - start_date) % chunk_days = 0}}

\* the rows received so far that have both band values
HasAll(e) == e.row.mean # NoValue /\ e.row.max # NoValue
\* the rows received so far that have at least one band value
HasSome(e) == e.row.mean # NoValue \/ e.row.max # NoValue

\* C1: for valid inputs, once the chunked extraction has returned, every
\* day of the inclusive interval start_date..end_date lies in the queried
\* range of exactly one chunk, and no day outside it was queried.
C1_ChunksCoverInclusiveInterval ==
    (impl \in Chunked /\ ValidInputs /\ pc = "done") =>
        /\ \A d \in start_date..end_date :
              Cardinality({r \in queried : DayQueried(d, r)}) = 1
        /\ \A d \in LowDay..MaxDay : \A r \in queried :
              DayQueried(d, r) => (start_date <= d /\ d <= end_date)

\* C2: for valid inputs and any pattern of query failures, the chunked
\* extraction eventually returns.
C2_ChunkedLoopTerminates ==
    (impl \in Chunked /\ ValidInputs) ~> (pc = "done")

\* C3: each planned chunk is queried exactly once: no range is queried a
\* second time, after every query the loop stands at the end of the chunk
\* just queried (so the next query is for the following chunk), and at the
\* return the queried ranges are exactly the planned ones.
C3_EachChunkQueriedOnce ==
    (impl \in Chunked /\ ValidInputs) =>
        /\ requeried = {}
        /\ queried # {} => current_date = last_range[2]
        /\ pc = "done" => queried = PlannedRanges

\* C4: with end_date < start_date or chunk_days <= 0 the chunked extraction
\* issues no query and does not return a result (it fails instead).
C4_InvalidRangeRejected ==
    (impl \in Chunked /\ ~ValidInputs) => (queried = {} /\ pc # "done")

\* C5: the returned result holds at most one record per calendar date.
C5_OneRecordPerDate ==
    pc = "done" =>
        \A i, j \in 1..Len(ret) : ret[i].date = ret[j].date => i = j

\* C6: when valid rows of two different chunks map to the same date with
\* differing values, the result holds exactly one record of that date and
\* it is the one accumulated first.
C6_FirstEncounteredKept ==
    (impl \in Chunked /\ pc = "done") =>
        LET got == SelectSeq(received, HasAll)
        IN  \A i, j \in 1..Len(all_data) :
              ( /\ i < j
                /\ j <= Len(got)
                /\ got[i].range # got[j].range
                /\ all_data[i].date = all_data[j].date
                /\ all_data[i] # all_data[j]
                /\ \A h \in 1..(i - 1) : all_data[h].date # all_data[i].date )
              => {k \in 1..Len(ret) : ret[k].date = all_data[i].date}
                   = {k \in 1..Len(ret) : ret[k] = all_data[i]}
                 /\ Cardinality({k \in 1..Len(ret) :
                                   ret[k].date = all_data[i].date}) = 1

C8_EmptyResultReturned ==
    (impl \in Chunked /\ ValidInputs /\ [](all_data = << >>))
        => <>(pc = "done" /\ ret = << >>)

C10_SortedByDate ==
    pc = "done" =>
        \A i, j \in 1..Len(ret) : i < j => ret[i].date <= ret[j].date

\* a run that returned although the rows had arrived out of date order
C10_Witness ==
    /\ pc = "done" /\ Len(ret) >= 2
    /\ \E i, j \in 1..Len(all_data) : i < j /\ all_data[i].date > all_data[j].date

\* the date a routine assigns to a timestamp on a machine with offset `off`
AssignedDate(im, t, off) == IF im = "utils" THEN UtcDate(t) ELSE LocalDate(t, off)

\* C11: the date of every accumulated record is the one its timestamp has
\* in one fixed zone: it is the date the routine assigns under every local
\* offset of the machine.
C11_DateIndependentOfLocalZone ==
    LET got == SelectSeq(received, HasAll)
    IN  \A i \in 1..Len(all_data) : i <= Len(got) =>
          \A off \in TzOffsets :
             all_data[i].date = AssignedDate(impl, got[i].row.time, off)

\* C12: in every accumulated record tmax_celsius is the value of the row's
\* maximum-temperature band and tmean_celsius that of its mean band.
C12_BandsNotSwapped ==
    LET got == SelectSeq(received, HasAll)
    IN  \A i \in 1..Len(all_data) : i <= Len(got) =>
          /\ all_data[i].tmax_celsius = got[i].row.max
          /\ all_data[i].tmean_celsius = got[i].row.mean

\* C13: for valid inputs no queried chunk spans more than chunk_days days
\* or ends after end_date, and a chunk shorter than chunk_days ends at
\* end_date.
C13_ChunkSpan ==
    (impl \in Chunked /\ ValidInputs) =>
        \A r \in queried :
           /\ r[2] - r[1] <= chunk_days
           /\ r[2] <= end_date
           /\ (r[2] - r[1] = chunk_days \/ r[2] = end_date)

\* a run that returned after a full chunk and a truncated last chunk
C13_Witness ==
    /\ impl \in Chunked /\ ValidInputs /\ pc = "done"
    /\ \E r, q \in queried :
          /\ r[2] - r[1] = chunk_days
          /\ q[2] - q[1] < chunk_days /\ q[2] = end_date

CeilDiv(a, b) == (a + b - 1) \div b

\* C14: for valid inputs and no failed query, the number of chunk queries
\* is ceil(days / chunk_days), days being the number of calendar days of
\* the inclusive interval start_date..end_date.
C14_ChunkCountIsCeil ==
    (impl \in Chunked /\ ValidInputs /\ pc = "done" /\ failed = {}) =>
        Cardinality(queried) = CeilDiv(end_date - start_date + 1, chunk_days)

\* C15: monthly aggregation emits exactly one row for each month in which
\* the daily frame has a record, no row for any other month, and the rows
\* are in ascending order of month.
C15_OneRowPerMonthPresent ==
    pc = "aggregated" =>
        /\ \A m \in 0..MaxMonth :
              Cardinality({k \in 1..Len(monthly_averages) :
                              monthly_averages[k].year_month = m})
                = (IF \E i \in 1..Len(ret) :
                         m * DaysPerMonth <= ret[i].date
                         /\ ret[i].date < (m + 1) * DaysPerMonth
                   THEN 1 ELSE 0)
        /\ \A j, k \in 1..Len(monthly_averages) :
              j < k => monthly_averages[j].year_month
                         < monthly_averages[k].year_month

\* an aggregation of a frame with records in two months around an empty one
C15_Witness ==
    /\ pc = "aggregated" /\ Len(monthly_averages) = 2
    /\ \E m \in 0..MaxMonth :
          /\ \A k \in 1..Len(monthly_averages) :
                monthly_averages[k].year_month # m
          /\ monthly_averages[1].year_month < m
          /\ m < monthly_averages[2].year_month

\* C16: every month row holds, for each column, the five statistics mean,
\* std, min, max and count; three records 10, 20, 30 of one month give
\* mean 20, min 10, max 30, count 3.
C16_FiveStatistics ==
    pc = "aggregated" =>
        \A k \in 1..Len(monthly_averages) :
           LET row == monthly_averages[k]
               tmax == {ret[i].tmax_celsius : i \in
                          {i \in 1..Len(ret) :
                              ret[i].date \div DaysPerMonth = row.year_month}}
           IN  /\ DOMAIN row.tmax_celsius = {"mean", "std", "min", "max", "count"}
               /\ DOMAIN row.tmean_celsius = {"mean", "std", "min", "max", "count"}
               /\ \A v \in tmax : row.tmax_celsius.min <= 100 * v
                                   /\ 100 * v <= row.tmax_celsius.max
               /\ (tmax = {10, 20, 30} /\ row.tmax_celsius.count = 3) =>
                     /\ row.tmax_celsius.mean = 2000
                     /\ row.tmax_celsius.min = 1000
                     /\ row.tmax_celsius.max = 3000

\* C17: a second call with the same arguments, against a source that returns
\* the same data, returns the DataFrame the first call returned: the same
\* records in the same order.
C17_SecondCallSameResult ==
    (run = 2 /\ pc = "done") => ret = first.ret

\* a second call of the command-line routine has returned two or more records
\* after a chunk had failed and was retried
C17_Witness ==
    /\ run = 2
    /\ pc = "done"
    /\ impl = "cli"
    /\ Len(ret) >= 2
    /\ first.failed # {}
    /\ failed # {}

\* the rows the call in progress was given for `range`
ChunkRows(range) ==
    LET Of(e) == e.range = range
        es == SelectSeq(received, Of)
    IN  [i \in 1..Len(es) |-> es[i].row]

\* the chunks whose query returned rows
ChunksWithRows == {received[i].range : i \in 1..Len(received)}

\* the orders in which those chunks can complete when run in parallel
CompletionOrders ==
    LET n == Cardinality(ChunksWithRows)
    IN  {p \in [1..n -> ChunksWithRows] :
            \A i, j \in 1..n : i # j => p[i] # p[j]}

\* all_data when the chunks append their rows in the completion order p
Accumulated(p) ==
    LET F[k \in 0..Len(p)] ==
            IF k = 0 THEN << >>
            ELSE F[k - 1] \o ProcessChunk(impl, ChunkRows(p[k]), tz)
    IN  F[Len(p)]

\* the DataFrame built from the rows accumulated in the completion order p
ParallelResult(p) == BuildFrame(impl, Accumulated(p))

DatesOf(df) == [i \in 1..Len(df) |-> df[i].date]

\* two chunks delivered records of one date that differ in a value
ChunksDisagree ==
    \E r1, r2 \in ChunksWithRows :
        /\ r1 # r2
        /\ LET a == ProcessChunk(impl, ChunkRows(r1), tz)
               b == ProcessChunk(impl, ChunkRows(r2), tz)
           IN  \E i \in 1..Len(a), j \in 1..Len(b) :
                  a[i].date = b[j].date /\ a[i] # b[j]

C19_UnknownVariableRejected ==
    (/\ vpc # "request"
     /\ \E v \in req_variables :
           v \notin {"temperature", "precipitation", "humidity", "wind",
                     "solar", "pressure", "evapotranspiration"}) =>
        /\ vpc \in {"UnknownVariableError", "http_500"}
        /\ remote_calls = 0
        /\ columns = << >>

\* a request for temperature and an unknown name has been rejected
C19_Witness ==
    /\ vpc = "UnknownVariableError"
    /\ "rainfall" \in req_variables
    /\ "temperature" \in req_variables
    /\ remote_calls = 0

\* the columns of the DataFrame besides the date
ValueColumns == {columns[i] : i \in 1..Len(columns)} \ {"date"}

\* the declared columns of a variable, as a set
Declared(v) == {OutputColumns(v)[i] : i \in 1..Len(OutputColumns(v))}

\* C20: for every non-empty set of known variables the columns of the result
\* (besides the date) are exactly the union of the declared columns of the
\* requested variables, no column name occurs twice, and no column of a
\* variable that was not requested occurs.
C20_ColumnsAreUnionOfDeclared ==
    (vpc \in {"resolved", "returned", "empty", "http_200"}) =>
        /\ ValueColumns = UNION {Declared(v) : v \in req_variables}
        /\ \A i, j \in 1..Len(columns) : i # j => columns[i] # columns[j]
        /\ \A v \in KnownVariables \ req_variables :
              Declared(v) \cap ValueColumns = {}

\* a DataFrame for temperature, humidity and wind, but not all seven
\* variables, has been returned
C20_Witness ==
    /\ vpc = "http_200"
    /\ {"temperature", "humidity", "wind"} \subseteq req_variables
    /\ req_variables # KnownVariables
    /\ Len(columns) >= 7

\* C22: every record the chunked extraction returns has a date between
\* start_date and end_date, whatever timestamps the source returns within the
\* queried ranges and whatever the local time zone.
C22_DatesWithinRequestedRange ==
    (impl \in Chunked /\ pc = "done") =>
        \A i \in 1..Len(ret) :
            start_date <= ret[i].date /\ ret[i].date <= end_date

\* the sum of the counts of one column over the monthly rows
CountSum(col) ==
    LET F[k \in 0..Len(monthly_averages)] ==
            IF k = 0 THEN 0
            ELSE F[k - 1] + (IF col = "tmax_celsius"
                             THEN monthly_averages[k].tmax_celsius.count
                             ELSE monthly_averages[k].tmean_celsius.count)
    IN  F[Len(monthly_averages)]

\* C25: for each aggregated column the monthly counts add up to the number of
\* daily records with a value in that column: every daily record is counted
\* in exactly one month.
C25_CountsAddUp ==
    (pc = "aggregated") =>
        /\ CountSum("tmax_celsius") =
              Cardinality({i \in 1..Len(ret) : ret[i].tmax_celsius # NoValue})
        /\ CountSum("tmean_celsius") =
              Cardinality({i \in 1..Len(ret) : ret[i].tmean_celsius # NoValue})

\* a frame with records in two months, two of them in one month, is aggregated
C25_Witness ==
    /\ pc = "aggregated"
    /\ Len(ret) = 3
    /\ Len(monthly_averages) = 2

\* C30: while the chunks are executed the list of accumulated rows only
\* grows at its end: no step removes or changes a row accumulated before, and
\* a chunk whose query fails adds nothing.
C30_AppendOnly ==
    [][(pc = "loop" /\ run' = run) =>
          /\ Len(all_data') >= Len(all_data)
          /\ SubSeq(all_data', 1, Len(all_data)) = all_data
          /\ (query_parity' # query_parity /\ ~last_ok' =>
                 all_data' = all_data)]_vars

\* a chunk has failed after rows of an earlier chunk were accumulated
C30_Witness ==
    /\ pc = "loop"
    /\ all_data # << >>
    /\ ~last_ok
    /\ failed # {}

\* C23: when the extraction of a POST /extract request yields an empty
\* DataFrame, the response has status 404 and the detail 'No data found for
\* specified period'.
C23_EmptyResultAnswered404 ==
    [][vpc = "empty" =>
          response' = [status |-> 404, detail |-> <<NoDataFound>>]]_vars

\* C24: while the initialized flag of a ClimateDataExtractor is false, each of
\* create_study_area, get_era5_temperature and extract_temperature_timeseries
\* raises RuntimeError and no request is sent; the flag is true only if
\* ee.Initialize() returned; /health reports the flag as gee_initialized.
C24_UninitializedExtractorRefuses ==
    (extractor.pc = "ready") =>
        /\ (extractor.initialized => extractor.ee_ok)
        /\ (~extractor.initialized =>
              /\ extractor.remote_calls = 0
              /\ extractor.outcome \in {"none", "RuntimeError"})
        /\ (extractor.health_reported =>
              extractor.gee_initialized = extractor.initialized)

\* an extractor whose initialization failed has refused
\* extract_temperature_timeseries after another call, and /health was asked
C24_Witness ==
    /\ extractor.pc = "ready"
    /\ ~extractor.initialized
    /\ extractor.calls >= 2
    /\ extractor.method = "extract_temperature_timeseries"
    /\ extractor.outcome = "RuntimeError"
    /\ extractor.health_reported

\* C26: in POST /extract/batch a location whose processing fails is skipped
\* alone: every location of the CSV is processed, and every location whose
\* extraction returned data has its data in the workbook.
C26_FailureSkipsOnlyThatLocation ==
    (batch.pc = "responded" /\ batch.idx > 0) =>
        /\ batch.processed = 1..Len(batch.locations)
        /\ \A i \in 1..Len(batch.locations) :
              batch.locations[i].outcome = "data" =>
                  \E sheet \in batch.workbook : sheet.row = i

\* C27: POST /extract/batch answers 400 when a date is empty, before the file
\* is read or a request is sent; 400 when the CSV has neither latitude and
\* longitude nor lat and lon; 404 when no location yields data.
C27_BatchErrorsKeepTheirStatus ==
    (batch.pc = "responded") =>
        /\ (~(batch.start_given /\ batch.end_given) =>
              /\ response.status = 400
              /\ ~batch.file_read
              /\ batch.remote_calls = 0)
        /\ (batch.start_given /\ batch.end_given /\ batch.readable
              /\ batch.csv_columns = "neither" =>
                 response.status = 400)
        /\ (batch.start_given /\ batch.end_given /\ batch.readable
              /\ batch.csv_columns # "neither"
              /\ (\A i \in 1..Len(batch.locations) :
                     batch.locations[i].outcome # "data") =>
                 response.status = 404)

\* two locations were processed, one failed and one was empty: 404
C27_Witness ==
    /\ batch.pc = "responded"
    /\ response.status = 404
    /\ Len(batch.locations) = 2
    /\ batch.locations[1].outcome = "fails_query"
    /\ batch.locations[2].outcome = "empty"

\* C28: validate_date_range never raises; it returns True exactly when both
\* strings parse, end_date is strictly after start_date, start_date is not in
\* the future and not before 1979-01-01, and False otherwise, also for
\* start_date = end_date and for malformed dates.
C28_ValidateDateRange ==
    (validation.pc = "returned") =>
        /\ validation.raised = "none"
        /\ validation.value =
              (/\ validation.start.ok
               /\ validation.end.ok
               /\ validation.end.day > validation.start.day
               /\ validation.start.day <= validation.now
               /\ validation.start.day >= Era5Start)

\* False was returned for two well-formed, equal dates within the ERA5
\* period and not in the future
C28_Witness ==
    /\ validation.pc = "returned"
    /\ validation.start.ok
    /\ validation.end.ok
    /\ validation.start.day = validation.end.day
    /\ validation.start.day >= Era5Start
    /\ validation.start.day <= validation.now
    /\ ~validation.value

\* the order of the steps of the command-line run
StepOrder == <<"initialize", "load", "aggregate", "export">>

\* C29: the command-line run initializes, extracts, aggregates and exports in
\* this order; when the initialization fails no query is issued and the exit
\* status is 1; aggregation and export happen only after the extraction has
\* returned a non-empty result; an empty result exits with status 1 and
\* writes no file.
C29_StepsInOrder ==
    /\ Len(cli.steps) <= Len(StepOrder)
    /\ cli.steps = SubSeq(StepOrder, 1, Len(cli.steps))
    /\ (cli.pc # "start" /\ ~cli.ee_ok =>
          /\ cli.pc = "exit"
          /\ cli.exit_status = 1
          /\ queried = {}
          /\ pc = "idle"
          /\ cli.files = {})
    /\ (Len(cli.steps) >= 3 => pc = "done" /\ ret # << >>)
    /\ (cli.files # {} => Len(cli.steps) = 4)
    /\ (cli.pc = "exit" /\ pc = "done" /\ ret = << >> =>
          cli.exit_status = 1 /\ cli.files = {} /\ Len(cli.steps) = 2)

\* a run has exported after an extraction of two chunks, and the files are
\* written
C29_Witness ==
    /\ cli.pc = "exit"
    /\ cli.exit_status = 0
    /\ cli.files # {}
    /\ Cardinality(queried) >= 2
    /\ monthly_averages # << >>

\* C21: for temperature the old method and the new method give equivalent
\* results for the same location and period: both return a frame, with the
\* same number of records and, date by date, the same tmax_celsius and
\* tmean_celsius.
C21_OldAndNewEquivalent ==
    (compat.pc \in {"stopped", "compared"}) =>
        /\ ~compat.old_raised
        /\ ~compat.new_raised
        /\ Len(compat.df_old) = Len(compat.df_new)
        /\ \A i \in 1..Len(compat.df_old), j \in 1..Len(compat.df_new) :
              compat.df_old[i].date = compat.df_new[j].date =>
                  compat.df_old[i] = compat.df_new[j]

====
